---- MODULE Spec2Model ----
(***************************************************************************)
(* Model of xarm_planner/xarm_planning_client.py (class                    *)
(* XArmPlanningClient): the orbit generator surround_and_lock, the         *)
(* camera-frame discovery of the constructor, and collision_setup.         *)
(*                                                                         *)
(* Real numbers are fixed-point integers: a length or a vector/quaternion  *)
(* component v stands for v / Scale, an angle a for a / Scale radians.     *)
(* Every product is rounded to the nearest unit, so equalities of the      *)
(* floating-point program are stated within a tolerance of a few units.    *)
(***************************************************************************)
EXTENDS Integers, Sequences, FiniteSets, TLC

\* ------------------------------------------------------------------------
\* Fixed-point arithmetic (Python float / numpy / math)
\* ------------------------------------------------------------------------

Scale == 10 * 100

\* math.pi, in units of 1/Scale radian
Pi == 3142

TwoPi == 2 * Pi

HalfPi == Pi \div 2

Abs(x) == IF x < 0 THEN -x ELSE x

Sign(x) == IF x < 0 THEN -1 ELSE 1

\* a / b rounded to the nearest integer (b > 0)
RDiv(a, b) == (a + b \div 2) \div b

\* fixed-point product
Mul(a, b) == RDiv(a * b, Scale)

RECURSIVE SqrtIter(_, _)
SqrtIter(n, x) ==
    LET y == (x + n \div x) \div 2
    IN  IF y >= x THEN x ELSE SqrtIter(n, y)

\* square root of a natural number, rounded to the nearest integer
ISqrt(n) ==
    IF n <= 0 THEN 0
    ELSE LET s == SqrtIter(n, n)
         IN  IF n - s * s > s THEN s + 1 ELSE s

\* Terms of the cosine series carry three more decimal digits than Scale.
RECURSIVE CosTerms(_, _, _)
CosTerms(x, t, k) ==
    IF k > 7 \/ t = 0 THEN 0
    ELSE t + CosTerms(x,
                      - RDiv(RDiv(RDiv(t * x, Scale), (2 * k + 1) * (2 * k + 2)) * x, Scale),
                      k + 1)

\* cos on [0, pi/2]
CosSeries(x) == RDiv(CosTerms(x, Scale * Scale, 0), Scale)

\* math.cos
Cos(a) ==
    LET r == a % TwoPi
        m == IF r > Pi THEN TwoPi - r ELSE r
    IN  IF m > HalfPi THEN - CosSeries(Pi - m) ELSE CosSeries(m)

\* math.sin
Sin(a) == Cos(a - HalfPi)

\* The angle in [lo, hi] (within [0, pi/2]) whose direction is that of
\* (ax, ay), ax >= 0, ay >= 0, by bisection on the sign of the cross product.
RECURSIVE AtanBisect(_, _, _, _)
AtanBisect(ax, ay, lo, hi) ==
    IF hi - lo <= 1
    THEN IF Abs(ay * Cos(lo) - ax * Sin(lo)) <= Abs(ay * Cos(hi) - ax * Sin(hi))
         THEN lo ELSE hi
    ELSE LET mid == (lo + hi) \div 2
         IN  IF ay * Cos(mid) - ax * Sin(mid) >= 0
             THEN AtanBisect(ax, ay, mid, hi)
             ELSE AtanBisect(ax, ay, lo, mid)

\* math.atan2(y, x), in (-pi, pi]
Atan2(y, x) ==
    IF x = 0 /\ y = 0 THEN 0
    ELSE LET a == AtanBisect(Abs(x), Abs(y), 0, HalfPi)
         IN  IF x >= 0 THEN Sign(y) * a ELSE Sign(y) * (Pi - a)

\* ------------------------------------------------------------------------
\* Vectors <<x, y, z>> and quaternions <<x, y, z, w>> (numpy, scipy Rotation)
\* ------------------------------------------------------------------------

VSub(a, b) == << a[1] - b[1], a[2] - b[2], a[3] - b[3] >>

\* np.linalg.norm
Norm(v) == ISqrt(v[1] * v[1] + v[2] * v[2] + v[3] * v[3])

\* v / |v| (_normalize).  numpy divides the zero vector by 0.0 without raising and
\* yields NaN in every component: nan is then TRUE and v is a placeholder.
Normalize(v) ==
    LET n == Norm(v)
    IN  IF n = 0
        THEN [nan |-> TRUE, v |-> << 0, 0, 0 >>]
        ELSE [nan |-> FALSE,
              v |-> << RDiv(v[1] * Scale, n), RDiv(v[2] * Scale, n), RDiv(v[3] * Scale, n) >>]

\* the camera's forward direction: ref_forward = [0, 0, 1]
RefForward == << 0, 0, Scale >>

\* Rotation.align_vectors([direction], [ref_forward]) for one pair of unit vectors:
\* the shortest-arc rotation taking ref_forward to direction, as a quaternion
\* (axis ref x direction, cosine ref . direction); the half-turn about x when the
\* two are opposite.
AlignVectors(d) ==
    LET u == << - d[2], d[1], 0, Scale + d[3] >>
        n == ISqrt(u[1] * u[1] + u[2] * u[2] + u[4] * u[4])
    IN  IF n = 0 THEN << Scale, 0, 0, 0 >>
        ELSE << RDiv(u[1] * Scale, n), RDiv(u[2] * Scale, n), 0, RDiv(u[4] * Scale, n) >>

\* Rotation.from_euler('z', a)
FromEulerZ(a) == << 0, 0, Sin(RDiv(a, 2)), Cos(RDiv(a, 2)) >>

\* p * q of two Rotations: the rotation q followed by p (Hamilton product)
QMul(p, q) ==
    << RDiv(p[4] * q[1] + p[1] * q[4] + p[2] * q[3] - p[3] * q[2], Scale),
       RDiv(p[4] * q[2] - p[1] * q[3] + p[2] * q[4] + p[3] * q[1], Scale),
       RDiv(p[4] * q[3] + p[1] * q[2] - p[2] * q[1] + p[3] * q[4], Scale),
       RDiv(p[4] * q[4] - p[1] * q[1] - p[2] * q[2] - p[3] * q[3], Scale) >>

\* ------------------------------------------------------------------------
\* The orbit generator
\* ------------------------------------------------------------------------

\* _gaze_at(center_point, ideal_camera_position)
GazeAt(center_point, ideal_camera_position) ==
    LET direction == Normalize(VSub(center_point, ideal_camera_position))
    IN  IF direction.nan
        THEN [nan |-> TRUE, q |-> << 0, 0, 0, 0 >>]
        ELSE [nan |-> FALSE, q |-> AlignVectors(direction.v)]

\* -(math.pi/2)*np.cos(angle)
RollLow(angle) == - Mul(HalfPi, Cos(angle))

\* the second branch without its half turn
RollHighDropsTurn(angle) == Mul(HalfPi, Cos(angle))

\* (math.pi/2)*np.cos(angle)+(math.pi)
RollHigh(angle) == Mul(HalfPi, Cos(angle)) + Pi

\* the roll about the local z axis applied after the gaze rotation
RollOffset(angle) == IF angle <= Pi THEN RollLow(angle) ELSE RollHigh(angle)

\* rotation * offset
ComposeOffsetFirst(rotation, offset) == QMul(offset, rotation)

Compose(rotation, offset) == QMul(rotation, offset)

\* _compute_pose_on_circle(center, angle), reading the instance fields
\* _circular_path_initial_position (ip) and _circular_path_angle_offset (off)
ComputePoseOnCircle(ip, off, center, angle) ==
    LET total_angle == off + angle
        radius == Norm(VSub(ip, center))
        x == center[1] + Mul(radius, Cos(total_angle))
        y == center[2] + Mul(radius, Sin(total_angle))
        z == ip[3]
        rotation == GazeAt(center, << x, y, z >>)
        offset == FromEulerZ(RollOffset(angle))
    IN  [position |-> << x, y, z >>,
         orientation |-> IF rotation.nan THEN << 0, 0, 0, 0 >>
                         ELSE Compose(rotation.q, offset),
         nan |-> rotation.nan]

\* _compute_initial_angle(center)
InitialAngle(ip, center) == Atan2(ip[2] - center[2], ip[1] - center[1])

\* angle = 2 * math.pi * i / num_waypoints
WaypointAngle(i, n) == RDiv(TwoPi * i, n)

\* ------------------------------------------------------------------------
\* Bounds and inputs
\* ------------------------------------------------------------------------

\* coordinates of a start position or a target: 0 .. MaxCoord length units
MaxCoord == 1

\* largest num_waypoints a caller passes
MaxWaypoints == 4

Points == { << x * Scale, y * Scale, z * Scale >> : x, y, z \in 0 .. MaxCoord }

\* num_waypoints is any Python int: negative, zero and one included
WaypointCounts == (0 - 1) .. MaxWaypoints

\* orientations the transform lookup may report (xyzw): identity, a quarter turn about z
Orientations == { << 0, 0, 0, Scale >>, << 0, 0, 707, 707 >> }

CurrentPoses == [position : Points, orientation : Orientations]

\* the callers of surround_and_lock: the main flow, and a second thread
Threads == { 1, 2 }

\* inputs of two concurrent calls
ConcPoses == [position : { << Scale, 0, 0 >>, << 0, Scale, Scale >> },
              orientation : { << 0, 0, 0, Scale >> }]

ConcCenters == { << 0, 0, 0 >>, << Scale, Scale, 0 >> }

ConcCounts == { 1, 3 }

VARIABLES
    \* instance fields of the client written by surround_and_lock
    initial_position,      \* self._circular_path_initial_position
    initial_orientation,   \* self._circular_path_initial_orientation
    angle_offset,          \* self._circular_path_angle_offset
    \* one activation of surround_and_lock per thread
    pc,                    \* where the activation stands
    center,                \* argument center
    num_waypoints,         \* argument num_waypoints
    current_pose,          \* local current_pose
    i,                     \* loop variable i
    waypoints,             \* local list waypoints (the returned value when pc = "done")
    printed,               \* the angles written to stdout by print('angle:', angle)
    err                    \* the exception that ended the activation, or "none"

orbitVars == << initial_position, initial_orientation, angle_offset, pc, center,
                num_waypoints, current_pose, i, waypoints, printed, err >>

VARIABLES
    \* the constructor's camera-frame discovery (lines 100-108) and the executor
    camera_link,           \* self.camera_link
    counter,               \* local counter of __init__
    mpc,                   \* where the constructor stands
    warned,                \* the warning "Failed to get the camera link name" was logged
    tf_sub,                \* self._tf_sub: the subscription created last (0: none yet)
    live,                  \* the subscriptions of the node to /tf_static
    queue,                 \* per subscription, the message waiting for its callback
    latched,               \* the last message of the transient-local publisher
    published,             \* how many messages the publisher has sent
    cb,                    \* the _tf_callback being run by the executor
    assigns,               \* how often _tf_callback has assigned self.camera_link
    seen_children,         \* the children of 'link_eef' that _tf_callback has read
    tested_assigns,        \* the value of assigns at the constructor's last loop test
    exit_name              \* self.camera_link when the constructor left the loop

camVars == << camera_link, counter, mpc, warned, tf_sub, live, queue, latched, published,
              cb, assigns, seen_children, tested_assigns, exit_name >>

VARIABLES
    \* one activation of collision_setup, and the planner it talks to
    cpc,                   \* where collision_setup stands
    obstacles,             \* argument obstacles
    clear_future,          \* what clear_all_collision_objects returned, and its state
    next_obstacle,         \* position of the for loop in obstacles
    commands               \* the commands the planner has been sent, in order

collVars == << cpc, obstacles, clear_future, next_obstacle, commands >>

VARIABLES
    \* one evaluation of the roll offset of _compute_pose_on_circle
    rpc,
    roll_angle,            \* argument angle
    roll_value             \* the angle given to Rotation.from_euler('z', .)

rollVars == << rpc, roll_angle, roll_value >>

vars == << orbitVars, camVars, collVars, rollVars >>

\* The three instance fields do not exist before the first call; they are written
\* before they are read, so the values given here are never read.
InitOrbit ==
    /\ initial_position = << 0, 0, 0 >>
    /\ initial_orientation = << 0, 0, 0, Scale >>
    /\ angle_offset = 0
    /\ pc = [t \in Threads |-> "idle"]
    /\ center = [t \in Threads |-> << 0, 0, 0 >>]
    /\ num_waypoints = [t \in Threads |-> 0]
    /\ current_pose = [t \in Threads |-> [position |-> << 0, 0, 0 >>,
                                          orientation |-> << 0, 0, 0, Scale >>]]
    /\ i = [t \in Threads |-> 0]
    /\ waypoints = [t \in Threads |-> << >>]
    /\ printed = [t \in Threads |-> << >>]
    /\ err = [t \in Threads |-> "none"]

\* surround_and_lock(center, num_waypoints) is entered and get_current_pose returns
Call(t, poses, centers, counts) ==
    /\ pc[t] = "idle"
    /\ \E p \in poses, c \in centers, n \in counts :
          /\ current_pose' = [current_pose EXCEPT ![t] = p]
          /\ center' = [center EXCEPT ![t] = c]
          /\ num_waypoints' = [num_waypoints EXCEPT ![t] = n]
    /\ pc' = [pc EXCEPT ![t] = "capture_position"]
    /\ UNCHANGED << initial_position, initial_orientation, angle_offset, i, waypoints,
                    printed, err >>
    /\ UNCHANGED << camVars, collVars, rollVars >>

\* ... or tf_buffer.lookup_transform raises after its 2 s timeout
LookupFails(t, centers, counts) ==
    /\ pc[t] = "idle"
    /\ \E c \in centers, n \in counts :
          /\ center' = [center EXCEPT ![t] = c]
          /\ num_waypoints' = [num_waypoints EXCEPT ![t] = n]
    /\ pc' = [pc EXCEPT ![t] = "raised"]
    /\ err' = [err EXCEPT ![t] = "TransformException"]
    /\ UNCHANGED << initial_position, initial_orientation, angle_offset, current_pose, i,
                    waypoints, printed >>
    /\ UNCHANGED << camVars, collVars, rollVars >>

CapturePosition(t) ==
    /\ pc[t] = "capture_position"
    /\ initial_position' = current_pose[t].position
    /\ pc' = [pc EXCEPT ![t] = "capture_orientation"]
    /\ UNCHANGED << initial_orientation, angle_offset, center, num_waypoints, current_pose,
                    i, waypoints, printed, err >>
    /\ UNCHANGED << camVars, collVars, rollVars >>

CaptureOrientation(t) ==
    /\ pc[t] = "capture_orientation"
    /\ initial_orientation' = current_pose[t].orientation
    /\ pc' = [pc EXCEPT ![t] = "initial_angle"]
    /\ UNCHANGED << initial_position, angle_offset, center, num_waypoints, current_pose,
                    i, waypoints, printed, err >>
    /\ UNCHANGED << camVars, collVars, rollVars >>

\* self._compute_initial_angle(center); waypoints = []; the loop starts at i = 1
ComputeInitialAngle(t) ==
    /\ pc[t] = "initial_angle"
    /\ angle_offset' = InitialAngle(initial_position, center[t])
    /\ waypoints' = [waypoints EXCEPT ![t] = << >>]
    /\ i' = [i EXCEPT ![t] = 1]
    /\ pc' = [pc EXCEPT ![t] = "loop"]
    /\ UNCHANGED << initial_position, initial_orientation, center, num_waypoints,
                    current_pose, printed, err >>
    /\ UNCHANGED << camVars, collVars, rollVars >>

\* What align_vectors does with a NaN direction is not defined by the library: it
\* raises (an SVD that does not converge) or returns a rotation of NaNs.
AlignOutcomes(pose) == IF pose.nan THEN { "returns", "raises" } ELSE { "returns" }

\* range(1, num_waypoints) with the end included
InRangeInclusive(k, n) == k <= n

\* whether range(1, num_waypoints) still yields k
InRange(k, n) == k < n

\* one iteration of: for i in range(1, num_waypoints)
LoopStep(t) ==
    /\ pc[t] = "loop"
    /\ InRange(i[t], num_waypoints[t])
    /\ LET angle == WaypointAngle(i[t], num_waypoints[t])
           pose == ComputePoseOnCircle(initial_position, angle_offset, center[t], angle)
       IN  \E outcome \in AlignOutcomes(pose) :
              IF outcome = "raises"
              THEN /\ pc' = [pc EXCEPT ![t] = "raised"]
                   /\ err' = [err EXCEPT ![t] = "ValueError"]
                   /\ UNCHANGED << i, waypoints, printed >>
              ELSE /\ waypoints' = [waypoints EXCEPT ![t] = Append(@, pose)]
                   /\ printed' = [printed EXCEPT ![t] = Append(@, angle)]
                   /\ i' = [i EXCEPT ![t] = @ + 1]
                   /\ UNCHANGED << pc, err >>
    /\ UNCHANGED << initial_position, initial_orientation, angle_offset, center,
                    num_waypoints, current_pose >>
    /\ UNCHANGED << camVars, collVars, rollVars >>

\* return waypoints
Return(t) ==
    /\ pc[t] = "loop"
    /\ ~ InRange(i[t], num_waypoints[t])
    /\ pc' = [pc EXCEPT ![t] = "done"]
    /\ UNCHANGED << initial_position, initial_orientation, angle_offset, center,
                    num_waypoints, current_pose, i, waypoints, printed, err >>
    /\ UNCHANGED << camVars, collVars, rollVars >>

\* ------------------------------------------------------------------------
\* Camera-frame discovery: __init__ lines 100-108, _init_camera_link, _tf_callback
\* ------------------------------------------------------------------------

\* The literal 10000 of "if counter <= 10000", scaled down: the constructor
\* subscribes while counter <= AttemptLimit.
AttemptLimit == 2

\* how many messages the static-transform publisher sends
MaxPublish == 1

Transform(parent, child) == [frame_id |-> parent, child_frame_id |-> child]

\* TFMessages of /tf_static: the arm with a camera on link_eef; a camera and a
\* gripper on link_eef; no child of link_eef at all
TFMessages ==
    { << Transform("link6", "link_eef"), Transform("link_eef", "camera_link") >>,
      << Transform("link_eef", "camera_link"), Transform("link_eef", "gripper_link") >>,
      << Transform("world", "link_base") >> }

NoMessage == << >>

\* the constructor subscribes for counter = 0 .. AttemptLimit
Subscriptions == 1 .. (AttemptLimit + 1)

NoCallback == [sub |-> 0, msg |-> NoMessage, idx |-> 0]

InitCam ==
    /\ camera_link = ""
    /\ counter = 0
    /\ mpc = "test"
    /\ warned = FALSE
    /\ tf_sub = 0
    /\ live = { }
    /\ queue = [s \in Subscriptions |-> NoMessage]
    /\ latched = NoMessage
    /\ published = 0
    /\ cb = NoCallback
    /\ assigns = 0
    /\ seen_children = { }
    /\ tested_assigns = 0
    /\ exit_name = ""

\* while self.camera_link == '':
LoopTest ==
    /\ mpc = "test"
    /\ tested_assigns' = assigns
    /\ IF camera_link = ""
       THEN mpc' = "branch" /\ UNCHANGED exit_name
       ELSE mpc' = "constructed" /\ exit_name' = camera_link
    /\ UNCHANGED << camera_link, counter, warned, tf_sub, live, queue, latched, published,
                    cb, assigns, seen_children >>
    /\ UNCHANGED << orbitVars, collVars, rollVars >>

\* "if counter < 10000"
AttemptAllowedExclusive(c) == c < AttemptLimit

\* if counter <= 10000
AttemptAllowed(c) == c <= AttemptLimit

\* self._init_camera_link(); counter += 1.  The new subscription replaces the handle
\* in self._tf_sub; being transient-local it is handed the publisher's last message.
Subscribe ==
    /\ mpc = "branch"
    /\ AttemptAllowed(counter)
    /\ LET new == counter + 1
       IN  /\ tf_sub' = new
           /\ live' = live \cup { new }
           /\ queue' = [queue EXCEPT ![new] = latched]
    /\ counter' = counter + 1
    /\ mpc' = "test"
    /\ UNCHANGED << camera_link, warned, latched, published, cb, assigns, seen_children,
                    tested_assigns, exit_name >>
    /\ UNCHANGED << orbitVars, collVars, rollVars >>

\* else: self.node.get_logger().warn(...)
Warn ==
    /\ mpc = "branch"
    /\ ~ AttemptAllowed(counter)
    /\ warned' = TRUE
    /\ mpc' = "fallback"
    /\ UNCHANGED << camera_link, counter, tf_sub, live, queue, latched, published, cb,
                    assigns, seen_children, tested_assigns, exit_name >>
    /\ UNCHANGED << orbitVars, collVars, rollVars >>

\* self.camera_link = 'link_eef'
Fallback ==
    /\ mpc = "fallback"
    /\ camera_link' = "link_eef"
    /\ mpc' = "test"
    /\ UNCHANGED << counter, warned, tf_sub, live, queue, latched, published, cb, assigns,
                    seen_children, tested_assigns, exit_name >>
    /\ UNCHANGED << orbitVars, collVars, rollVars >>

\* the steps of the constructor's thread
MainStep == LoopTest \/ Subscribe \/ Warn \/ Fallback

\* The static-transform publisher sends a message: every subscription gets it
\* (depth 1, KEEP_LAST: it replaces a message not yet taken).
Publish ==
    /\ published < MaxPublish
    /\ \E m \in TFMessages :
          /\ latched' = m
          /\ queue' = [s \in Subscriptions |-> IF s \in live THEN m ELSE queue[s]]
    /\ published' = published + 1
    /\ UNCHANGED << camera_link, counter, mpc, warned, tf_sub, live, cb, assigns,
                    seen_children, tested_assigns, exit_name >>
    /\ UNCHANGED << orbitVars, collVars, rollVars >>

\* An executor thread takes the message of a subscription and enters _tf_callback.
\* The subscriptions share the node's default, mutually exclusive callback group:
\* one callback runs at a time.
CallbackStart ==
    /\ cb = NoCallback
    /\ \E s \in live :
          /\ queue[s] # NoMessage
          /\ cb' = [sub |-> s, msg |-> queue[s], idx |-> 1]
          /\ queue' = [queue EXCEPT ![s] = NoMessage]
    /\ UNCHANGED << camera_link, counter, mpc, warned, tf_sub, live, latched, published,
                    assigns, seen_children, tested_assigns, exit_name >>
    /\ UNCHANGED << orbitVars, collVars, rollVars >>

\* one iteration of: for transform in msg.transforms.  destroy_subscription takes the
\* handle in self._tf_sub, whichever subscription the callback belongs to.
CallbackStep ==
    /\ cb # NoCallback
    /\ cb.idx <= Len(cb.msg)
    /\ LET transform == cb.msg[cb.idx]
       IN  IF transform.frame_id = "link_eef"
           THEN /\ camera_link' = transform.child_frame_id
                /\ live' = live \ { tf_sub }
                /\ queue' = [s \in Subscriptions |->
                                IF s = tf_sub THEN NoMessage ELSE queue[s]]
                /\ assigns' = assigns + 1
                /\ seen_children' = seen_children \cup { transform.child_frame_id }
           ELSE UNCHANGED << camera_link, live, queue, assigns, seen_children >>
    /\ cb' = [cb EXCEPT !.idx = @ + 1]
    /\ UNCHANGED << counter, mpc, warned, tf_sub, latched, published, tested_assigns,
                    exit_name >>
    /\ UNCHANGED << orbitVars, collVars, rollVars >>

\* _tf_callback returns
CallbackEnd ==
    /\ cb # NoCallback
    /\ cb.idx > Len(cb.msg)
    /\ cb' = NoCallback
    /\ UNCHANGED << camera_link, counter, mpc, warned, tf_sub, live, queue, latched,
                    published, assigns, seen_children, tested_assigns, exit_name >>
    /\ UNCHANGED << orbitVars, collVars, rollVars >>

\* ------------------------------------------------------------------------
\* collision_setup(obstacles)
\* ------------------------------------------------------------------------

\* longest obstacle list passed
MaxObstacles == 3

ObstacleTypes == { "sphere", "box", "cylinder" }

\* obstacle dicts; the id of an obstacle is its place in the list
ObstacleLists ==
    UNION { [1 .. n -> ObstacleTypes] : n \in 0 .. MaxObstacles }

InitColl ==
    /\ cpc = "idle"
    /\ obstacles = << >>
    /\ clear_future = "unset"
    /\ next_obstacle = 0
    /\ commands = << >>

\* collision_setup is entered: clear_all_collision_objects() sends the clear request
\* and returns a future, or None
ClearAll ==
    /\ cpc = "idle"
    /\ \E obs \in ObstacleLists : obstacles' = obs
    /\ commands' = Append(commands, [cmd |-> "clear", id |-> 0])
    /\ \E f \in { "none", "pending" } : clear_future' = f
    /\ cpc' = "poll"
    /\ UNCHANGED next_obstacle
    /\ UNCHANGED << orbitVars, camVars, rollVars >>

\* the planner finishes clearing
ClearCompletes ==
    /\ clear_future = "pending"
    /\ clear_future' = "done"
    /\ UNCHANGED << cpc, obstacles, next_obstacle, commands >>
    /\ UNCHANGED << orbitVars, camVars, rollVars >>

\* the wait skipped: the loop is left whatever the future says
WaitOverAlways(f) == TRUE

\* if clear_collision_future is not None: while not clear_collision_future.done(): ...
WaitOver(f) == f = "none" \/ f = "done"

\* time.sleep(0.1) and test again
PollSleep ==
    /\ cpc = "poll"
    /\ ~ WaitOver(clear_future)
    /\ cpc' = "sleep"
    /\ UNCHANGED << obstacles, clear_future, next_obstacle, commands >>
    /\ UNCHANGED << orbitVars, camVars, rollVars >>

PollWake ==
    /\ cpc = "sleep"
    /\ cpc' = "poll"
    /\ UNCHANGED << obstacles, clear_future, next_obstacle, commands >>
    /\ UNCHANGED << orbitVars, camVars, rollVars >>

PollDone ==
    /\ cpc = "poll"
    /\ WaitOver(clear_future)
    /\ cpc' = "add"
    /\ next_obstacle' = 1
    /\ UNCHANGED << obstacles, clear_future, commands >>
    /\ UNCHANGED << orbitVars, camVars, rollVars >>

\* the commands one obstacle makes: the two ifs on obstacle['type']
AddCommands(type, id) ==
    (IF type = "sphere" THEN << [cmd |-> "add_sphere", id |-> id] >> ELSE << >>)
    \o (IF type = "box" THEN << [cmd |-> "add_box", id |-> id] >> ELSE << >>)

\* one iteration of: for obstacle in obstacles
AddObstacle ==
    /\ cpc = "add"
    /\ next_obstacle <= Len(obstacles)
    /\ commands' = commands \o AddCommands(obstacles[next_obstacle], next_obstacle)
    /\ next_obstacle' = next_obstacle + 1
    /\ UNCHANGED << cpc, obstacles, clear_future >>
    /\ UNCHANGED << orbitVars, camVars, rollVars >>

CollisionReturn ==
    /\ cpc = "add"
    /\ next_obstacle > Len(obstacles)
    /\ cpc' = "done"
    /\ UNCHANGED << obstacles, clear_future, next_obstacle, commands >>
    /\ UNCHANGED << orbitVars, camVars, rollVars >>

\* ------------------------------------------------------------------------
\* The roll offset as a function of the angle
\* ------------------------------------------------------------------------

\* the angles of one revolution, 0 and 2 pi included
RollAngles == 0 .. TwoPi

InitRoll ==
    /\ rpc = "idle"
    /\ roll_angle = 0
    /\ roll_value = 0

\* the branch of _compute_pose_on_circle that chooses the offset rotation
ApplyRollOffset ==
    /\ rpc = "called"
    /\ roll_value' = RollOffset(roll_angle)
    /\ rpc' = "done"
    /\ UNCHANGED roll_angle
    /\ UNCHANGED << orbitVars, camVars, collVars >>

\* ------------------------------------------------------------------------
\* Specifications
\* ------------------------------------------------------------------------

Init == InitOrbit /\ InitCam /\ InitColl /\ InitRoll

\* the main flow alone calls surround_and_lock
NextOrbit ==
    \/ Call(1, CurrentPoses, Points, WaypointCounts)
    \/ LookupFails(1, Points, WaypointCounts)
    \/ CapturePosition(1)
    \/ CaptureOrientation(1)
    \/ ComputeInitialAngle(1)
    \/ LoopStep(1)
    \/ Return(1)

SpecOrbit == Init /\ [][NextOrbit]_vars

\* two threads call surround_and_lock on the same client
NextConc ==
    \E t \in Threads :
        \/ Call(t, ConcPoses, ConcCenters, ConcCounts)
        \/ LookupFails(t, ConcCenters, ConcCounts)
        \/ CapturePosition(t)
        \/ CaptureOrientation(t)
        \/ ComputeInitialAngle(t)
        \/ LoopStep(t)
        \/ Return(t)

SpecConc == Init /\ [][NextConc]_vars

\* the constructor's loop, the publisher and the executor's callbacks
NextCam ==
    \/ LoopTest
    \/ Subscribe
    \/ Warn
    \/ Fallback
    \/ Publish
    \/ CallbackStart
    \/ CallbackStep
    \/ CallbackEnd

\* The constructor runs on the main thread, which is never starved; the publisher and
\* the executor owe nothing.
SpecCam == Init /\ [][NextCam]_vars /\ WF_vars(MainStep)

NextColl ==
    \/ ClearAll
    \/ ClearCompletes
    \/ PollSleep
    \/ PollWake
    \/ PollDone
    \/ AddObstacle
    \/ CollisionReturn

SpecColl == Init /\ [][NextColl]_vars

\* the roll offset applied to an angle of one revolution
InitRollInputs ==
    /\ InitOrbit /\ InitCam /\ InitColl
    /\ rpc = "called"
    /\ roll_angle \in RollAngles
    /\ roll_value = 0

NextRoll == ApplyRollOffset

SpecRoll == InitRollInputs /\ [][NextRoll]_vars

\* what one call returns when nothing else touches the client
SoloWaypoints(p, c, n) ==
    [k \in 1 .. (n - 1) |->
        ComputePoseOnCircle(p.position, InitialAngle(p.position, c), c, WaypointAngle(k, n))]

\* ------------------------------------------------------------------------
\* Properties of the orbit generator
\* ------------------------------------------------------------------------

\* equality of two fixed-point values up to rounding: half a percent of a unit
Tol == Scale \div 200

Near(a, b) == Abs(a - b) <= Tol

\* cross product of two fixed-point vectors
Cross(a, b) == << Mul(a[2], b[3]) - Mul(a[3], b[2]),
                  Mul(a[3], b[1]) - Mul(a[1], b[3]),
                  Mul(a[1], b[2]) - Mul(a[2], b[1]) >>

\* the image of v under the rotation q: v + 2 w (u x v) + 2 u x (u x v), u the vector
\* part of q
Apply(q, v) ==
    LET u == << q[1], q[2], q[3] >>
        c == Cross(u, v)
        cc == Cross(u, c)
    IN  << v[1] + 2 * Mul(q[4], c[1]) + 2 * cc[1],
           v[2] + 2 * Mul(q[4], c[2]) + 2 * cc[2],
           v[3] + 2 * Mul(q[4], c[3]) + 2 * cc[3] >>

\* the call of thread t returned normally
Returned(t) == pc[t] = "done"

\* the transform lookup of thread t's call succeeded
PoseKnown(t) == pc[t] \in { "capture_position", "capture_orientation", "initial_angle",
                            "loop", "done" }
                \/ (pc[t] = "raised" /\ err[t] # "TransformException")

\* C1: a call with num_waypoints = N >= 2 that returns, returns exactly N - 1 poses,
\* the k-th of them computed for index k, i.e. for the angle 2 pi k / N, which lies
\* strictly between 0 and 2 pi and grows with k (the start pose is not among them).
C1_CountAndOrder ==
    \A t \in Threads :
        (Returned(t) /\ num_waypoints[t] >= 2) =>
            /\ Len(waypoints[t]) = num_waypoints[t] - 1
            /\ Len(printed[t]) = num_waypoints[t] - 1
            /\ \A k \in 1 .. (num_waypoints[t] - 1) :
                  /\ printed[t][k] = WaypointAngle(k, num_waypoints[t])
                  /\ 0 < printed[t][k] /\ printed[t][k] < TwoPi
                  /\ k > 1 => printed[t][k - 1] < printed[t][k]

C1_Witness ==
    /\ Returned(1) /\ num_waypoints[1] = MaxWaypoints /\ MaxWaypoints >= 3
    /\ Len(waypoints[1]) = MaxWaypoints - 1
    /\ current_pose[1].position # center[1]

\* C2: every waypoint of a call whose start position differs from the target is as
\* far from the target, in 3D, as the start position is.
C2_RadiusInvariant ==
    \A t \in Threads :
        (PoseKnown(t) /\ current_pose[t].position # center[t]) =>
            \A k \in 1 .. Len(waypoints[t]) :
                Near(Norm(VSub(waypoints[t][k].position, center[t])),
                     Norm(VSub(current_pose[t].position, center[t])))

\* C3: the emitted orientation of every waypoint that has a direction to the target
\* takes the forward axis (0, 0, 1) to the unit vector from the waypoint to the target.
C3_ForwardAxisOnTarget ==
    \A t \in Threads :
        \A k \in 1 .. Len(waypoints[t]) :
            LET wp == waypoints[t][k]
                f == Apply(wp.orientation, RefForward)
                d == Normalize(VSub(center[t], wp.position))
            IN  (~ wp.nan /\ ~ d.nan) =>
                    /\ Near(f[1], d.v[1])
                    /\ Near(f[2], d.v[2])
                    /\ Near(f[3], d.v[3])

\* a returned orbit seen from above or below the target, with a waypoint whose roll
\* offset is not zero
C3_Witness ==
    /\ Returned(1) /\ num_waypoints[1] >= 3
    /\ current_pose[1].position[3] # center[1][3]
    /\ \E k \in 1 .. Len(waypoints[1]) :
          /\ ~ waypoints[1][k].nan
          /\ Abs(RollOffset(printed[1][k])) > Tol

\* C4: each of two concurrent calls returns what it returns when run alone.
C4_CallsIndependent ==
    \A t \in Threads :
        Returned(t) =>
            waypoints[t] = SoloWaypoints(current_pose[t], center[t], num_waypoints[t])

\* C5: a call whose target is its start position computes no waypoint and does not
\* return a sequence: it ends in DegenerateGeometry.  (Stated for the calls with a
\* valid count, num_waypoints >= 2, which is where waypoints would be computed.)
C5_DegenerateFailsFast ==
    \A t \in Threads :
        (PoseKnown(t) /\ num_waypoints[t] >= 2 /\ current_pose[t].position = center[t]) =>
            /\ waypoints[t] = << >>
            /\ ~ Returned(t)
            /\ pc[t] = "raised" => err[t] = "DegenerateGeometry"

\* C6: a call with num_waypoints < 2 does not return a sequence: it ends in
\* InvalidArgument.
C6_InvalidCountSignalled ==
    \A t \in Threads :
        (PoseKnown(t) /\ num_waypoints[t] < 2) =>
            /\ ~ Returned(t)
            /\ pc[t] = "raised" => err[t] = "InvalidArgument"

\* ------------------------------------------------------------------------
\* Properties of the camera-frame discovery
\* ------------------------------------------------------------------------

\* C7: the discovery loop ends; the constructor subscribes at most AttemptLimit + 1
\* times (counter 0 .. AttemptLimit); it leaves the loop with a name that is not
\* empty and is either a child of 'link_eef' read from a message or, with the warning
\* logged, 'link_eef'; and the fallback branch is entered only with the attempts
\* used up and no child of 'link_eef' assigned when the loop last tested the name.
C7_DiscoveryTerminates ==
    /\ <>(mpc = "constructed")
    /\ [](counter <= AttemptLimit + 1 /\ tf_sub <= AttemptLimit + 1)
    /\ [](mpc = "constructed" =>
            /\ exit_name # ""
            /\ \/ exit_name \in seen_children
               \/ exit_name = "link_eef" /\ warned)
    /\ [](mpc = "fallback" =>
            warned /\ counter = AttemptLimit + 1 /\ tested_assigns = 0)

\* the constructor has left the loop through the fallback
C7_Witness ==
    /\ mpc = "constructed" /\ exit_name = "link_eef" /\ warned
    /\ counter = AttemptLimit + 1

\* C8: at most one subscription to the static feed is live, the callback assigns the
\* camera frame at most once, and the name the constructor left the loop with never
\* changes afterwards.
C8_SubscribedOnceWrittenOnce ==
    /\ Cardinality(live) <= 1
    /\ assigns <= 1
    /\ mpc = "constructed" => camera_link = exit_name

\* ------------------------------------------------------------------------
\* Properties of collision_setup
\* ------------------------------------------------------------------------

IsAdd(c) == c.cmd # "clear"

AddsSent == SelectSeq(commands, IsAdd)

Addable == { k \in 1 .. Len(obstacles) : obstacles[k] \in { "sphere", "box" } }

\* C9: while the future returned by the clear request is not done, no add command has
\* been sent; when collision_setup returns, the add commands sent are one per
\* obstacle of type sphere or box, of that type, in the order of the list; and
\* collision_setup writes no field of the client.
C9_ClearBeforeAdds ==
    /\ [](clear_future = "pending" => AddsSent = << >>)
    /\ [](cpc # "idle" => commands[1].cmd = "clear")
    /\ [](cpc = "done" =>
            /\ Len(AddsSent) = Cardinality(Addable)
            /\ \A j \in 1 .. Len(AddsSent) :
                  /\ AddsSent[j].id \in Addable
                  /\ AddsSent[j].cmd = (IF obstacles[AddsSent[j].id] = "sphere"
                                        THEN "add_sphere" ELSE "add_box")
                  /\ j > 1 => AddsSent[j - 1].id < AddsSent[j].id)
    /\ [][UNCHANGED << initial_position, initial_orientation, angle_offset, camera_link,
                       tf_sub >>]_vars

\* collision_setup has waited for a future and then sent a box and a sphere
C9_Witness ==
    /\ cpc = "done" /\ clear_future = "done"
    /\ Len(obstacles) = MaxObstacles
    /\ Len(AddsSent) >= 2 /\ Len(AddsSent) < Len(obstacles)
    /\ AddsSent[1].cmd # AddsSent[2].cmd

\* ------------------------------------------------------------------------
\* Properties of the roll offset
\* ------------------------------------------------------------------------

\* the neighbourhood of pi looked at: a tenth of a radian on either side
RollWindow == Scale \div 10

\* C10: the roll offset is continuous at pi: the two branches agree there, and within
\* RollWindow of pi the offset differs from its value at pi by no more than the angle
\* does (up to rounding); and its value at 2 pi is its value at 0 plus a whole number
\* of turns.
C10_RollContinuousPeriodic ==
    rpc = "done" =>
        /\ roll_angle = Pi => Near(roll_value, RollHigh(Pi))
        /\ Abs(roll_angle - Pi) <= RollWindow =>
              Abs(roll_value - RollOffset(Pi)) <= Abs(roll_angle - Pi) + Tol
        /\ roll_angle = TwoPi =>
              \/ (roll_value - RollOffset(0)) % TwoPi <= Tol
              \/ (roll_value - RollOffset(0)) % TwoPi >= TwoPi - Tol

\* the offset just past pi, taken from the second branch
C10_Witness == rpc = "done" /\ roll_angle = Pi + 1 /\ roll_value = RollHigh(Pi + 1)

====
